---- MODULE Spec2Model ----
(***************************************************************************)
(* Model of the glyph table builders of arcade.experimental:               *)
(*   flatten_glyph_selection, remap_font_glyph_table_lowercase_to_upper,   *)
(*   load_monospace_spritesheet_font (texture_table.py) and                *)
(*   render_glyph_texture_from_system_font,                                *)
(*   build_glyph_table_from_system_font (gui/glyph_display.py).            *)
(*                                                                         *)
(* A Python str is a sequence of one-character strings.  A dict is the     *)
(* sequence of its <<key, value>> entries in insertion order.  Every call  *)
(* ends in an outcome: a returned value or the exception that left it.     *)
(***************************************************************************)
EXTENDS Integers, Sequences, FiniteSets, TLC

\* ------------------------------------------------------------------ bounds
MaxLen == 3          \* longest string passed as a whole glyph selection
MaxElemLen == 2      \* longest string inside a list/tuple selection
MaxElems == 2        \* most elements of a list/tuple selection
MaxCount == 3        \* largest sprite count requested from the sheet
MaxTable == 3        \* most entries of a table handed to the remap pass
MaxStop == 3         \* largest bound of the short code ranges
MaxHexLen == 9       \* longest hex code, the leading '#' not counted
MaxChannels == 5     \* most channels of a color tuple
MaxCoord == 2        \* largest coordinate of a line end
MaxWidth == 3        \* largest line width
MaxFrames == 30      \* most frames drawn by the compute shader window
MaxQuarters == 6     \* largest fullness assigned to a bar, in quarters
MaxPlayers == 6      \* most audio players a key starts

\* -------------------------------------------------------------- characters
\* The characters glyph selections are drawn from: an upper case letter,
\* its lower case form, and a character without case.
Chars == {"A", "a", "1"}

\* str.isupper() on a one-character string
isupper(c) == c = "A"

\* str.lower() on a one-character string
lower(c) == IF c = "A" THEN "a" ELSE c

\* the stop of the default code range, ASCII_WITH_LATIN_1 = (0, 256)
LatinStop == 256

\* the last code point chr() accepts: chr(0x110000) raises ValueError
MaxCodePoint == 1114111

\* chr() of a code point in 0..MaxCodePoint: a one-character string
chr(n) == CASE n = 65 -> "A"
            [] n = 97 -> "a"
            [] n = 49 -> "1"
            [] OTHER -> "chr" \o ToString(n)

\* the code points whose characters occur in a call
CodePoints == (0..LatinStop) \cup ((MaxCodePoint - 2)..MaxCodePoint)

\* ord() of a one-character string
ord(c) == CASE c = "A" -> 65
            [] c = "a" -> 97
            [] c = "1" -> 49
            [] OTHER -> CHOOSE n \in CodePoints : chr(n) = c

RECURSIVE SeqsUpTo(_, _)
\* all sequences over S of length 0..n
SeqsUpTo(S, n) ==
    IF n = 0 THEN {<<>>}
    ELSE LET shorter == SeqsUpTo(S, n - 1)
         IN  shorter \cup {Append(s, x) : s \in {t \in shorter : Len(t) = n - 1}, x \in S}

\* ------------------------------------------------------------ Python values
Str(s) == [type |-> "str", val |-> s]

\* Elements a list/tuple selection may hold that are not strings:
\* an int (no len()), an empty list and a one-element list.
NonStrings == {[type |-> "int", val |-> <<>>],
               [type |-> "list", val |-> <<>>],
               [type |-> "list", val |-> <<"1">>]}

\* the elements of list/tuple selections: strings of up to n characters
\* and the non-strings
Elements(n) == {Str(s) : s \in SeqsUpTo(Chars, n)} \cup NonStrings

\* Glyph selection arguments: str, list, tuple, and objects of other types
\* (None, an int, a set: empty, of strings, of non-strings).  A str holds
\* its characters in chars, a container its elements in items.
PyStr(s) == [kind |-> "str", chars |-> s, items |-> <<>>]
PyContainer(k, v) == [kind |-> k, chars |-> <<>>, items |-> v]

OtherSelections ==
    {PyContainer("NoneType", <<>>), PyContainer("int", <<>>),
     PyContainer("set", <<>>),
     PyContainer("set", <<Str(<<"A">>)>>),
     PyContainer("set", <<[type |-> "int", val |-> <<>>]>>)}

\* the selections with list/tuple elements of up to n characters
SelectionsOf(n) ==
    {PyStr(s) : s \in SeqsUpTo(Chars, MaxLen)}
    \cup {PyContainer(k, v) : k \in {"list", "tuple"},
                              v \in SeqsUpTo(Elements(n), MaxElems)}
    \cup OtherSelections

\* the selections flatten_glyph_selection is called on
Selections == SelectionsOf(MaxElemLen)

\* the selections the table builders are called on: the elements of a
\* list/tuple are single characters, empty strings and non-strings
BuilderSelections == SelectionsOf(1)

\* len(selection)
SelLen(selection) ==
    IF selection.kind = "str" THEN Len(selection.chars) ELSE Len(selection.items)

\* ---------------------------------------------------------------- outcomes
NoValue == <<>>
Returned(v) == [status |-> "ok", value |-> v, error |-> "", index |-> 0]
Raised(e, i) == [status |-> "error", value |-> NoValue, error |-> e, index |-> i]
Pending == [status |-> "pending", value |-> NoValue, error |-> "", index |-> 0]

\* ------------------------------------------------- flatten_glyph_selection
\* whether len(selection[0]) is defined: a character of a str and every
\* sized element have a length, an int has none
FirstHasLen(selection) ==
    selection.kind = "str" \/ selection.items[1].type # "int"

\* variant: the emptiness test looks at len(selection) twice
FirstLen_of_whole(selection) == SelLen(selection)

\* len(selection[0])
FirstLen(selection) ==
    IF selection.kind = "str" THEN 1 ELSE Len(selection.items[1].val)

\* index (from 1) of the first element that is not a str, 0 when all are
FirstNonString(v) ==
    IF \E i \in 1..Len(v) : v[i].type # "str"
    THEN CHOOSE i \in 1..Len(v) :
            /\ v[i].type # "str"
            /\ \A j \in 1..(i - 1) : v[j].type = "str"
    ELSE 0

RECURSIVE join_reversed(_)
\* variant: the elements are joined last to first
join_reversed(v) == IF v = <<>> THEN <<>> ELSE join_reversed(Tail(v)) \o v[1].val

RECURSIVE join(_)
\* ''.join(selection) for a sequence of str elements
join(v) == IF v = <<>> THEN <<>> ELSE v[1].val \o join(Tail(v))

\* variant: any sized container passes for a selection
IsSelectionType_sized(sel) == sel.kind \in {"str", "list", "tuple", "set"}

\* isinstance(selection, (str, list, tuple))
IsSelectionType(sel) == sel.kind \in {"str", "list", "tuple"}

flatten_glyph_selection(sel) ==
    IF ~IsSelectionType(sel)
    THEN Raised("InvalidSelectionType", 0)
    ELSE IF SelLen(sel) < 1
    THEN Raised("EmptySelection", 0)
    ELSE IF ~FirstHasLen(sel)
    THEN Raised("LenTypeError", 1)
    ELSE IF FirstLen(sel) < 1
    THEN Raised("EmptySelection", 0)
    ELSE IF sel.kind = "str"
    THEN Returned(sel.chars)
    ELSE IF FirstNonString(sel.items) # 0
    THEN Raised("NonStringElement", FirstNonString(sel.items))
    ELSE Returned(join(sel.items))

\* -------------------------------------------------------------------- dict
\* A dict is the sequence of its <<key, value>> entries in insertion order.
Keys(d) == {d[i][1] : i \in 1..Len(d)}

\* d[k] for a key that is present
Get(d, k) == d[CHOOSE i \in 1..Len(d) : d[i][1] = k][2]

\* variant: a present key keeps its value, d.setdefault(k, v)
DictSet_setdefault(d, k, v) == IF k \in Keys(d) THEN d ELSE Append(d, <<k, v>>)

\* d[k] = v: a present key keeps its place, a new key goes last
DictSet(d, k, v) ==
    IF k \in Keys(d)
    THEN [i \in 1..Len(d) |-> IF d[i][1] = k THEN <<k, v>> ELSE d[i]]
    ELSE Append(d, <<k, v>>)

\* ------------------------------------------------------------ collaborators
\* the i-th sub-image (from 0) cut out of the sheet
Sprite(i) == [name |-> <<"s">>, image |-> i]

\* arcade.load_spritesheet: the first count sub-images of the grid, in order
load_spritesheet(n) == [i \in 1..n |-> Sprite(i - 1)]

\* text_utils.create_raw_text_image: the image of one text in one font
create_raw_text_image(text, font_name, font_size, font_color) ==
    [text |-> text, font_name |-> font_name, font_size |-> font_size,
     font_color |-> font_color]

\* arcade.Texture(name, image)
Texture(name, image) == [name |-> name, image |-> image]

\* -------------------------------------------- render_glyph_texture_from_...
Digit == <<"0", "1", "2", "3", "4", "5", "6", "7", "8", "9",
           "a", "b", "c", "d", "e", "f">>

RECURSIVE ToBase(_, _)
\* the digits of n >= 0 in base b, most significant first
ToBase(n, b) ==
    IF n < b THEN <<Digit[n + 1]>>
    ELSE ToBase(n \div b, b) \o <<Digit[(n % b) + 1]>>

\* hex() of a non-negative int
hex(n) == <<"0", "x">> \o ToBase(n, 16)

\* str() of a non-negative int, as an f-string formats it
str(n) == ToBase(n, 10)

\* variant: the character itself ends the name
tex_name_raw(glyph, font_name, font_size) ==
    font_name \o <<"-">> \o str(font_size) \o <<"-">> \o <<glyph>>

\* f"{font_name}-{font_size}-{hex(ord(glyph))}"
tex_name(glyph, font_name, font_size) ==
    font_name \o <<"-">> \o str(font_size) \o <<"-">> \o hex(ord(glyph))

\* glyph is a Python value: a str or one of NonStrings
render_glyph_texture_from_system_font(glyph, font_name, font_size, font_color) ==
    IF glyph.type # "str"
    THEN Raised("GlyphTypeError", 0)
    ELSE IF Len(glyph.val) # 1
    THEN Raised("GlyphLengthError", 0)
    ELSE Returned(Texture(
            tex_name(glyph.val[1], font_name, font_size),
            create_raw_text_image(glyph.val, font_name, font_size, font_color)))

\* ------------------------------------------------------------------ inputs
FontNames == {<<"a", "r", "i", "a", "l">>, <<"m", "o", "n", "o">>}
FontSizes == {16, 9}
FontColors == {"WHITE", "RED"}
Fonts == [name : FontNames, size : FontSizes, color : FontColors]
DefaultFont == [name |-> <<"a", "r", "i", "a", "l">>, size |-> 16, color |-> "WHITE"]

\* an int and a value that is not an int, as items of a code range
PyInt(n) == [type |-> "int", n |-> n]
NotAnInt == [type |-> "str", n |-> 0]

\* code_range arguments: kind is the type of the object, items its elements
PyRange(k, v) == [kind |-> k, items |-> v]

ASCII_WITH_LATIN_1 == PyRange("tuple", <<PyInt(0), PyInt(LatinStop)>>)

\* the ranges build_glyph_table_from_system_font is called on: every pair
\* of small ints, pairs around the last code point, the default, and
\* objects that are not a list or tuple of two ints
CodeRanges ==
    {PyRange(k, <<PyInt(a), PyInt(b)>>) : k \in {"tuple", "list"},
                                      a \in -1..MaxStop, b \in -1..MaxStop}
    \cup {PyRange("tuple", <<PyInt(a), PyInt(b)>>) :
              a \in (MaxCodePoint - 1)..(MaxCodePoint + 1),
              b \in (MaxCodePoint - 1)..(MaxCodePoint + 2)}
    \cup {ASCII_WITH_LATIN_1,
          PyRange("dict", <<>>),
          PyRange("str", <<NotAnInt, NotAnInt>>),
          PyRange("tuple", <<NotAnInt, PyInt(1)>>),
          PyRange("tuple", <<PyInt(0), NotAnInt>>),
          PyRange("tuple", <<PyInt(1), PyInt(2), PyInt(3)>>),
          PyRange("list", <<PyInt(1)>>),
          PyRange("tuple", <<>>)}

\* the glyph arguments render_glyph_texture_from_system_font is called on:
\* strings of up to two characters, the null character among them, and
\* values that are not strings
Glyphs == {Str(g) : g \in SeqsUpTo({chr(0), "A", chr(255)}, 2)} \cup NonStrings

RECURSIVE DistinctKeys(_)
DistinctKeys(d) ==
    d = <<>> \/ (d[1][1] \notin Keys(Tail(d)) /\ DistinctKeys(Tail(d)))

\* glyph tables handed to the remap pass: dicts of up to MaxTable entries
Tables ==
    {d \in SeqsUpTo(Chars \X {Sprite(0), Sprite(1)}, MaxTable) : DistinctKeys(d)}

\* ------------------------------------------------------------------- state
VARIABLES
    op,                 \* the function called: flatten, remap, spritesheet, font
    pc,                 \* where the call stands
    selection,          \* argument glyph_selection
    count,              \* argument count
    check_lengths,      \* argument check_lengths
    map_lower_to_upper, \* argument map_lower_to_upper
    font,               \* arguments font_name, font_size, font_color
    glyph,              \* argument glyph
    code_range,         \* argument code_range
    hex_code,           \* argument code of color_from_hex_string
    color,              \* argument color
    line,               \* arguments of get_points_for_thick_line
    window,             \* the MyWindow of the compute shader tutorial
    gl,                 \* its OpenGL context: buffers, bindings, the screen
    bar,                \* the IndicatorBar of healthbar_for_units.py
    assignment,         \* the last assignment to bar.fullness and its end
    key,                \* the SynthKey of playback_speed_example.py
    players,            \* the audio players started so far
    flat_selection,     \* local flat_selection / flattened_selection
    raw_sheet,          \* local raw_sheet
    table_arg,          \* argument glyph_table, as it was when passed
    glyph_table,        \* the dict being built or remapped
    index,              \* position of the for loop over the selection
    it_used,            \* dict size the items() iterator was created at
    it_pos,             \* entries the items() iterator has yielded
    slicer_calls,       \* calls of load_spritesheet so far
    raster_calls,       \* calls of create_raw_text_image so far
    outcome             \* how the call ended

args == <<op, selection, count, check_lengths, map_lower_to_upper, font,
          glyph, code_range, hex_code, color, line, table_arg>>
locals == <<flat_selection, raw_sheet, glyph_table, index, it_used, it_pos>>
examples == <<window, gl, bar, assignment, key, players>>
vars == <<examples, args, locals, pc, slicer_calls, raster_calls, outcome>>

\* the arguments of the functions of gui/elements/glyph_display.py, in a
\* call of another function
NoGlyphCall ==
    /\ glyph = Str(<<"A">>)
    /\ code_range = ASCII_WITH_LATIN_1

\* the arguments of the functions of drawing_support.py, in a call of
\* another function
NoLine == [start_x |-> 0, start_y |-> 0, end_x |-> 0, end_y |-> 0, line_width |-> 0]

NoColorCall ==
    /\ hex_code = <<>>
    /\ color = <<>>
    /\ line = NoLine

\* no object of the example programs exists
NoWindow ==
    /\ window = <<>>
    /\ gl = <<>>

NoBar ==
    /\ bar = <<>>
    /\ assignment = <<>>

NoKey ==
    /\ key = <<>>
    /\ players = <<>>

NoExamples == NoWindow /\ NoBar /\ NoKey

\* the arguments of the glyph selection functions, in a call of another
\* function
NoSelectionCall ==
    /\ selection = PyStr(<<>>)
    /\ count = 0
    /\ check_lengths = TRUE
    /\ map_lower_to_upper = FALSE

\* everything but the arguments, at the time of the call
Fresh(table) ==
    /\ table_arg = table
    /\ flat_selection = <<>>
    /\ raw_sheet = <<>>
    /\ glyph_table = table
    /\ index = 0
    /\ it_used = 0
    /\ it_pos = 0
    /\ slicer_calls = 0
    /\ raster_calls = 0
    /\ outcome = Pending

InitFlatten ==
    /\ op = "flatten"
    /\ pc = "flatten"
    /\ selection \in Selections
    /\ count = 0
    /\ check_lengths = TRUE
    /\ map_lower_to_upper = FALSE
    /\ font = DefaultFont
    /\ NoGlyphCall
    /\ NoColorCall
    /\ NoExamples
    /\ Fresh(<<>>)

InitRemap ==
    /\ op = "remap"
    /\ pc = "remap_call"
    /\ selection = PyStr(<<>>)
    /\ count = 0
    /\ check_lengths = TRUE
    /\ map_lower_to_upper = FALSE
    /\ font = DefaultFont
    /\ NoGlyphCall
    /\ NoColorCall
    /\ NoExamples
    /\ \E t \in Tables : Fresh(t)

InitSpritesheet ==
    /\ op = "spritesheet"
    /\ pc = "flatten"
    /\ selection \in BuilderSelections
    /\ count \in 0..MaxCount
    /\ check_lengths \in BOOLEAN
    /\ map_lower_to_upper \in BOOLEAN
    /\ font = DefaultFont
    /\ NoGlyphCall
    /\ NoColorCall
    /\ NoExamples
    /\ Fresh(<<>>)

InitFont ==
    /\ op = "font"
    /\ pc = "flatten"
    /\ selection \in BuilderSelections
    /\ count = 0
    /\ check_lengths = TRUE
    /\ map_lower_to_upper \in BOOLEAN
    /\ font \in Fonts
    /\ NoGlyphCall
    /\ NoColorCall
    /\ NoExamples
    /\ Fresh(<<>>)

InitGlyph ==
    /\ op = "glyph"
    /\ pc = "validate"
    /\ NoSelectionCall
    /\ font \in Fonts
    /\ glyph \in Glyphs
    /\ code_range = ASCII_WITH_LATIN_1
    /\ NoColorCall
    /\ NoExamples
    /\ Fresh(<<>>)

InitRange ==
    /\ op = "range"
    /\ pc = "validate"
    /\ NoSelectionCall
    /\ font \in Fonts
    /\ glyph = Str(<<"A">>)
    /\ code_range \in CodeRanges
    /\ NoColorCall
    /\ NoExamples
    /\ Fresh(<<>>)

Init ==
    \/ InitFlatten \/ InitRemap \/ InitSpritesheet \/ InitFont
    \/ InitGlyph \/ InitRange

\* the call leaves with an exception
Raise(e, i) ==
    /\ outcome' = Raised(e, i)
    /\ pc' = "done"

\* the call returns v
Return(v) ==
    /\ outcome' = Returned(v)
    /\ pc' = "done"

\* ---------------------------------------- flatten_glyph_selection, called
Flatten ==
    /\ op = "flatten"
    /\ pc = "flatten"
    /\ outcome' = flatten_glyph_selection(selection)
    /\ pc' = "done"
    /\ UNCHANGED <<examples, args, locals, slicer_calls, raster_calls>>

\* -------------------------- remap_font_glyph_table_lowercase_to_upper
\* variant: a lower case entry that is present is kept
remap_entry_fill_missing(table, character, upper_texture) ==
    IF isupper(character) /\ lower(character) \notin Keys(table)
    THEN DictSet(table, lower(character), upper_texture)
    ELSE table

\* the loop body on one entry:
\*   if character.isupper(): glyph_table[character.lower()] = upper_texture
remap_entry(table, character, upper_texture) ==
    IF isupper(character)
    THEN DictSet(table, lower(character), upper_texture)
    ELSE table

\* for ... in glyph_table.items(): the iterator is created
RemapCall ==
    /\ pc = "remap_call"
    /\ it_used' = Len(glyph_table)
    /\ it_pos' = 0
    /\ pc' = "remap_iter"
    /\ UNCHANGED <<examples, args, flat_selection, raw_sheet, glyph_table, index,
                   slicer_calls, raster_calls, outcome>>

\* next(): the dict changed size since the iterator was created
RemapSizeChanged ==
    /\ pc = "remap_iter"
    /\ Len(glyph_table) # it_used
    /\ Raise("RuntimeError", 0)
    /\ UNCHANGED <<examples, args, locals, slicer_calls, raster_calls>>

\* next() yields an entry and the loop body runs on it
RemapBody ==
    /\ pc = "remap_iter"
    /\ Len(glyph_table) = it_used
    /\ it_pos < Len(glyph_table)
    /\ LET character == glyph_table[it_pos + 1][1]
           upper_texture == glyph_table[it_pos + 1][2]
       IN  glyph_table' = remap_entry(glyph_table, character, upper_texture)
    /\ it_pos' = it_pos + 1
    /\ UNCHANGED <<examples, args, flat_selection, raw_sheet, index, it_used, pc,
                   slicer_calls, raster_calls, outcome>>

\* next() is exhausted: the function returns None to its caller
RemapReturn ==
    /\ pc = "remap_iter"
    /\ Len(glyph_table) = it_used
    /\ it_pos >= Len(glyph_table)
    /\ IF op = "remap"
       THEN Return(NoValue)
       ELSE pc' = "return" /\ UNCHANGED outcome
    /\ UNCHANGED <<examples, args, locals, slicer_calls, raster_calls>>

\* ------------------------------------- load_monospace_spritesheet_font
\* variant: only a selection longer than the sheet is refused
LengthMismatch_longer(check, flat_length, n) == check /\ flat_length > n

\* check_lengths and flat_length != count
LengthMismatch(check, flat_length, n) == check /\ flat_length # n

\* variant: raw_sheet[index - 1], where -1 is the last sprite
sprite_at_previous(sheet, i) == sheet[((i - 1) % Len(sheet)) + 1]

\* raw_sheet[index], index counted from 0 and within the sheet
sprite_at(sheet, i) == sheet[i + 1]

SsFlatten ==
    /\ op = "spritesheet"
    /\ pc = "flatten"
    /\ LET r == flatten_glyph_selection(selection)
       IN  IF r.status = "error"
           THEN outcome' = r /\ pc' = "done" /\ UNCHANGED flat_selection
           ELSE flat_selection' = r.value /\ pc' = "check" /\ UNCHANGED outcome
    /\ UNCHANGED <<examples, args, raw_sheet, glyph_table, index, it_used, it_pos,
                   slicer_calls, raster_calls>>

SsCheckLengths ==
    /\ op = "spritesheet"
    /\ pc = "check"
    /\ IF LengthMismatch(check_lengths, Len(flat_selection), count)
       THEN Raise("SelectionCountMismatch", 0)
       ELSE pc' = "slice" /\ UNCHANGED outcome
    /\ UNCHANGED <<examples, args, locals, slicer_calls, raster_calls>>

SsSlice ==
    /\ op = "spritesheet"
    /\ pc = "slice"
    /\ raw_sheet' = load_spritesheet(count)
    /\ slicer_calls' = slicer_calls + 1
    /\ glyph_table' = <<>>
    /\ index' = 0
    /\ pc' = "assign"
    /\ UNCHANGED <<examples, args, flat_selection, it_used, it_pos, raster_calls, outcome>>

\* variant: the loop ends with the sheet, as over zip(flat_selection,
\* raw_sheet)
SsAssign_zipped ==
    /\ op = "spritesheet"
    /\ pc = "assign"
    /\ index < Len(flat_selection)
    /\ IF index >= Len(raw_sheet)
       THEN /\ pc' = IF map_lower_to_upper THEN "remap_call" ELSE "return"
            /\ UNCHANGED <<glyph_table, index, outcome>>
       ELSE LET character == flat_selection[index + 1]
                texture == sprite_at(raw_sheet, index)
                assigned == DictSet(glyph_table, character, texture)
            IN  /\ glyph_table' =
                      IF map_lower_to_upper /\ isupper(character)
                      THEN DictSet(assigned, lower(character), texture)
                      ELSE assigned
                /\ index' = index + 1
                /\ UNCHANGED <<pc, outcome>>
    /\ UNCHANGED <<examples, args, flat_selection, raw_sheet, it_used, it_pos,
                   slicer_calls, raster_calls>>

\* one round of the loop over enumerate(flat_selection)
SsAssign ==
    /\ op = "spritesheet"
    /\ pc = "assign"
    /\ index < Len(flat_selection)
    /\ IF index >= Len(raw_sheet)
       THEN Raise("IndexError", index) /\ UNCHANGED <<glyph_table, index>>
       ELSE LET character == flat_selection[index + 1]
                texture == sprite_at(raw_sheet, index)
                assigned == DictSet(glyph_table, character, texture)
            IN  /\ glyph_table' =
                      IF map_lower_to_upper /\ isupper(character)
                      THEN DictSet(assigned, lower(character), texture)
                      ELSE assigned
                /\ index' = index + 1
                /\ UNCHANGED <<pc, outcome>>
    /\ UNCHANGED <<examples, args, flat_selection, raw_sheet, it_used, it_pos,
                   slicer_calls, raster_calls>>

\* the loop is over
SsAssigned ==
    /\ op = "spritesheet"
    /\ pc = "assign"
    /\ index >= Len(flat_selection)
    /\ pc' = IF map_lower_to_upper THEN "remap_call" ELSE "return"
    /\ UNCHANGED <<examples, args, locals, slicer_calls, raster_calls, outcome>>

SsReturn ==
    /\ op = "spritesheet"
    /\ pc = "return"
    /\ Return(glyph_table)
    /\ UNCHANGED <<examples, args, locals, slicer_calls, raster_calls>>

\* ----------------------------------- build_glyph_table_from_system_font
\* variant: font_size is not passed on and takes its default
render_char_default_size(char, fnt) ==
    render_glyph_texture_from_system_font(
        Str(<<char>>), fnt.name, DefaultFont.size, fnt.color)

\* render_glyph_texture_from_system_font(char, font_name=font_name,
\*     font_size=font_size, font_color=font_color)
render_char(char, fnt) ==
    render_glyph_texture_from_system_font(
        Str(<<char>>), fnt.name, fnt.size, fnt.color)

\* variant: the elements before the first one that is not a str are
\* rendered, the rest is dropped
FontFlatten_lazy ==
    /\ op = "font"
    /\ pc = "flatten"
    /\ LET r == flatten_glyph_selection(selection)
       IN  IF r.status = "error" /\ r.error = "NonStringElement"
           THEN /\ flat_selection' =
                      join(SubSeq(selection.items, 1, r.index - 1))
                /\ pc' = "render"
                /\ UNCHANGED outcome
           ELSE IF r.status = "error"
           THEN outcome' = r /\ pc' = "done" /\ UNCHANGED flat_selection
           ELSE flat_selection' = r.value /\ pc' = "render" /\ UNCHANGED outcome
    /\ UNCHANGED <<examples, args, raw_sheet, glyph_table, index, it_used, it_pos,
                   slicer_calls, raster_calls>>

FontFlatten ==
    /\ op = "font"
    /\ pc = "flatten"
    /\ LET r == flatten_glyph_selection(selection)
       IN  IF r.status = "error"
           THEN outcome' = r /\ pc' = "done" /\ UNCHANGED flat_selection
           ELSE flat_selection' = r.value /\ pc' = "render" /\ UNCHANGED outcome
    /\ UNCHANGED <<examples, args, raw_sheet, glyph_table, index, it_used, it_pos,
                   slicer_calls, raster_calls>>

\* one round of the loop over flattened_selection
FontRender ==
    /\ op = "font"
    /\ pc = "render"
    /\ index < Len(flat_selection)
    /\ LET char == flat_selection[index + 1]
           r == render_char(char, font)
       IN  IF r.status = "error"
           THEN outcome' = r /\ pc' = "done"
                /\ UNCHANGED <<glyph_table, index, raster_calls>>
           ELSE /\ glyph_table' = DictSet(glyph_table, char, r.value)
                /\ raster_calls' = raster_calls + 1
                /\ index' = index + 1
                /\ UNCHANGED <<pc, outcome>>
    /\ UNCHANGED <<examples, args, flat_selection, raw_sheet, it_used, it_pos, slicer_calls>>

\* the loop is over: the table is returned as built
FontReturn ==
    /\ op = "font"
    /\ pc = "render"
    /\ index >= Len(flat_selection)
    /\ Return(glyph_table)
    /\ UNCHANGED <<examples, args, locals, slicer_calls, raster_calls>>

\* ------------- render_glyph_texture_from_system_font, called directly
\* variant: only the empty string is refused
single_character_or_more(g) == Len(g.val) >= 1

\* len(glyph) == 1
single_character(g) == Len(g.val) = 1

\* the two tests on the argument: the exception raised, "" when none is
glyph_error(g) ==
    IF g.type # "str" THEN "GlyphTypeError"
    ELSE IF ~single_character(g) THEN "GlyphLengthError"
    ELSE ""

GlyphValidate ==
    /\ op = "glyph"
    /\ pc = "validate"
    /\ IF glyph_error(glyph) # ""
       THEN Raise(glyph_error(glyph), 0)
       ELSE pc' = "raster" /\ UNCHANGED outcome
    /\ UNCHANGED <<examples, args, locals, slicer_calls, raster_calls>>

\* the image is made by the backend, named and wrapped in a Texture
GlyphRaster ==
    /\ op = "glyph"
    /\ pc = "raster"
    /\ raster_calls' = raster_calls + 1
    /\ Return(Texture(
            tex_name(glyph.val[1], font.name, font.size),
            create_raw_text_image(glyph.val, font.name, font.size, font.color)))
    /\ UNCHANGED <<examples, args, locals, slicer_calls>>

\* ------------ build_glyph_table_from_system_font(code_range=...)
range_start(cr) == cr.items[1].n
range_stop(cr) == cr.items[2].n

\* variant: the order of the two values is tested before their sign
validate_code_range_order_first(cr) ==
    IF \/ cr.kind \notin {"tuple", "list"}
       \/ Len(cr.items) # 2
       \/ cr.items[1].type # "int"
       \/ cr.items[2].type # "int"
    THEN "InvalidRangeType"
    ELSE IF range_stop(cr) <= range_start(cr) THEN "EmptyOrInvertedRange"
    ELSE IF range_start(cr) < 0 THEN "NegativeCodePoint"
    ELSE ""

\* the tests on code_range: the exception raised, "" when none is
validate_code_range(cr) ==
    IF \/ cr.kind \notin {"tuple", "list"}
       \/ Len(cr.items) # 2
       \/ cr.items[1].type # "int"
       \/ cr.items[2].type # "int"
    THEN "InvalidRangeType"
    ELSE IF range_start(cr) < 0 THEN "NegativeCodePoint"
    ELSE IF range_stop(cr) <= range_start(cr) THEN "EmptyOrInvertedRange"
    ELSE ""

\* variant: the stop of the range is taken in
in_range_inclusive(code, cr) == code <= range_stop(cr)

\* whether range(range_start, range_stop) still yields code
in_range(code, cr) == code < range_stop(cr)

RangeValidate ==
    /\ op = "range"
    /\ pc = "validate"
    /\ IF validate_code_range(code_range) # ""
       THEN Raise(validate_code_range(code_range), 0) /\ UNCHANGED index
       ELSE /\ index' = range_start(code_range)
            /\ pc' = "render"
            /\ UNCHANGED outcome
    /\ UNCHANGED <<examples, args, flat_selection, raw_sheet, glyph_table, it_used,
                   it_pos, slicer_calls, raster_calls>>

\* one round of the loop over (chr(code) for code in range(...))
RangeRender ==
    /\ op = "range"
    /\ pc = "render"
    /\ in_range(index, code_range)
    /\ IF index > MaxCodePoint
       THEN Raise("ChrValueError", index)
            /\ UNCHANGED <<glyph_table, index, raster_calls>>
       ELSE LET char == chr(index)
                r == render_char(char, font)
            IN  IF r.status = "error"
                THEN outcome' = r /\ pc' = "done"
                     /\ UNCHANGED <<glyph_table, index, raster_calls>>
                ELSE /\ glyph_table' = DictSet(glyph_table, char, r.value)
                     /\ raster_calls' = raster_calls + 1
                     /\ index' = index + 1
                     /\ UNCHANGED <<pc, outcome>>
    /\ UNCHANGED <<examples, args, flat_selection, raw_sheet, it_used, it_pos, slicer_calls>>

\* the range is exhausted: the table is returned
RangeReturn ==
    /\ op = "range"
    /\ pc = "render"
    /\ ~in_range(index, code_range)
    /\ Return(glyph_table)
    /\ UNCHANGED <<examples, args, locals, slicer_calls, raster_calls>>

Next ==
    \/ Flatten
    \/ RemapCall \/ RemapSizeChanged \/ RemapBody \/ RemapReturn
    \/ SsFlatten \/ SsCheckLengths \/ SsSlice \/ SsAssign \/ SsAssigned \/ SsReturn
    \/ FontFlatten \/ FontRender \/ FontReturn
    \/ GlyphValidate \/ GlyphRaster
    \/ RangeValidate \/ RangeRender \/ RangeReturn

Spec == Init /\ [][Next]_vars

\* ------------------------------------------------- drawing_support.py
\* the hex codes color_from_hex_string is called on: strings of the digits
\* 0 and f, one character of which may be another: an upper case digit, a
\* letter that is no digit, a sign, a space, an underscore; with and
\* without leading '#'
HexDigitSample == {"0", "f"}
OtherCharSample == {"A", "g", "+", "-", " ", "_"}

HexBodies(n) ==
    LET plain == SeqsUpTo(HexDigitSample, n)
    IN  plain \cup UNION {{[b EXCEPT ![i] = c] : i \in 1..Len(b), c \in OtherCharSample}
                          : b \in plain}

HexCodes(n) == {prefix \o b : prefix \in {<<>>, <<"#">>}, b \in HexBodies(n)}
            \cup {<<"#", "#", "f", "f", "f">>, <<"#", "#">>}

\* the colors get_four_byte_color is called on
ChannelSample == {0, 7, 255}
Colors == SeqsUpTo(ChannelSample, MaxChannels)

RECURSIVE lstrip(_, _)
\* s.lstrip(c)
lstrip(s, c) == IF s # <<>> /\ s[1] = c THEN lstrip(Tail(s), c) ELSE s

RECURSIVE rstrip(_, _)
\* s.rstrip(c)
rstrip(s, c) ==
    IF s # <<>> /\ s[Len(s)] = c THEN rstrip(SubSeq(s, 1, Len(s) - 1), c) ELSE s

RECURSIVE double_whole(_)
\* variant: the code is written twice, code * 2
double_whole(s) == IF s = <<>> THEN <<>> ELSE s \o s

RECURSIVE double(_)
\* "".join(i * 2 for i in code)
double(s) == IF s = <<>> THEN <<>> ELSE <<s[1], s[1]>> \o double(Tail(s))

LowerDigits == <<"0", "1", "2", "3", "4", "5", "6", "7", "8", "9",
                 "a", "b", "c", "d", "e", "f">>
UpperDigits == <<"0", "1", "2", "3", "4", "5", "6", "7", "8", "9",
                 "A", "B", "C", "D", "E", "F">>

\* the value of c as a digit of base 16, 16 when it is none
int_digit(c) ==
    IF \E v \in 1..16 : LowerDigits[v] = c
    THEN (CHOOSE v \in 1..16 : LowerDigits[v] = c) - 1
    ELSE IF \E v \in 1..16 : UpperDigits[v] = c
    THEN (CHOOSE v \in 1..16 : UpperDigits[v] = c) - 1
    ELSE 16

RECURSIVE digits_value(_)
\* the number written by digits and underscores
digits_value(s) ==
    IF s = <<>> THEN 0
    ELSE IF s[Len(s)] = "_" THEN digits_value(SubSeq(s, 1, Len(s) - 1))
    ELSE digits_value(SubSeq(s, 1, Len(s) - 1)) * 16 + int_digit(s[Len(s)])

\* int(s, 16): white space around the literal is dropped, one sign and
\* the prefix 0x are accepted, an underscore may stand between two digits
\* and after the prefix.  ok tells whether a number was read.
int16(s) ==
    LET stripped == rstrip(lstrip(s, " "), " ")
        signed == stripped # <<>> /\ stripped[1] \in {"+", "-"}
        unsigned == IF signed THEN Tail(stripped) ELSE stripped
        prefixed == Len(unsigned) >= 2 /\ unsigned[1] = "0"
                       /\ unsigned[2] \in {"x", "X"}
        after == IF prefixed THEN SubSeq(unsigned, 3, Len(unsigned)) ELSE unsigned
        digits == IF prefixed /\ after # <<>> /\ after[1] = "_"
                  THEN Tail(after) ELSE after
        wellformed ==
            /\ digits # <<>>
            /\ \A i \in 1..Len(digits) :
                  \/ int_digit(digits[i]) < 16
                  \/ /\ digits[i] = "_"
                     /\ 1 < i
                     /\ i < Len(digits)
                     /\ digits[i - 1] # "_"
        magnitude == digits_value(digits)
    IN  IF wellformed
        THEN [ok |-> TRUE,
              n |-> IF signed /\ stripped[1] = "-" THEN 0 - magnitude ELSE magnitude]
        ELSE [ok |-> FALSE, n |-> 0]

\* variant: the k-th channel is read from code[k:k+2]
channel_overlapping(c, k) == int16(SubSeq(c, k, k + 1))

\* the k-th channel, k from 1: int(code[2k-2:2k], 16)
channel(c, k) == int16(SubSeq(c, 2 * k - 1, 2 * k))

\* the tuple of the first n channels, or the ValueError of the first
\* int() that fails; with_alpha tells whether 255 is appended
channels(c, n, with_alpha) ==
    LET bad == {k \in 1..n : ~channel(c, k).ok}
    IN  IF bad # {}
        THEN Raised("IntValueError", CHOOSE k \in bad : \A j \in bad : k <= j)
        ELSE Returned([k \in 1..n |-> channel(c, k).n]
                      \o (IF with_alpha THEN <<255>> ELSE <<>>))

color_from_hex_string(s) ==
    LET stripped == lstrip(s, "#")
        c == IF Len(stripped) <= 4 THEN double(stripped) ELSE stripped
    IN  IF Len(c) = 6 THEN channels(c, 3, TRUE)
        ELSE IF Len(c) = 8 THEN channels(c, 4, FALSE)
        ELSE Raised("MalformedHexColor", 0)

\* variant: a missing alpha channel is filled with 0
add_alpha_transparent(c) == <<c[1], c[2], c[3], 0>>

\* color[0], color[1], color[2], 255
add_alpha(c) == <<c[1], c[2], c[3], 255>>

get_four_byte_color(c) ==
    IF Len(c) = 4 THEN Returned(c)
    ELSE IF Len(c) = 3 THEN Returned(add_alpha(c))
    ELSE Raised("InvalidColorFormat", 0)

\* variant: any color of three channels or more is accepted
is_rgb_or_rgba_or_longer(c) == Len(c) >= 3

\* len(color) in (3, 4)
is_rgb_or_rgba(c) == Len(c) \in {3, 4}

\* a float channel color[k] / 255, kept as the fraction <<color[k], 255>>
get_three_float_color(c) ==
    IF is_rgb_or_rgba(c)
    THEN Returned(<<<<c[1], 255>>, <<c[2], 255>>, <<c[3], 255>>>>)
    ELSE Raised("InvalidColorFormat", 0)

\* the lines get_points_for_thick_line is called on: the ends have
\* integer coordinates and the line runs along an axis or has no length
Coords == 0..MaxCoord
Lines ==
    {l \in [start_x : Coords, start_y : Coords, end_x : Coords, end_y : Coords,
            line_width : 0..MaxWidth] :
        l.start_x = l.end_x \/ l.start_y = l.end_y}

\* math.sqrt(n) for the square n of an integer
sqrt(n) == CHOOSE r \in 0..n : r * r = n

\* a / b for an integer a that b divides: the lines along an axis give
\* no other quotient
Quotient(a, b) == CHOOSE q \in (0 - MaxCoord)..MaxCoord : q * b = a

\* variant: the fallback normal lies along the x axis
fallback_normal_x == <<1, 0>>

\* normal_x = 1.0, normal_y = 1.0
fallback_normal == <<1, 1>>

\* variant: the corners are returned as r1, r2, r3, r4
corners_crossed(r1, r2, r3, r4) == <<r1, r2, r3, r4>>

\* return (r1_x, r1_y), (r2_x, r2_y), (r4_x, r4_y), (r3_x, r3_y)
corners(r1, r2, r3, r4) == <<r1, r2, r4, r3>>

\* The coordinates of the corners are halves of integers: a corner is kept
\* as the pair of its doubled coordinates, 2 * (p + n * w / 2) = 2p + n * w.
get_points_for_thick_line(start_x, start_y, end_x, end_y, line_width) ==
    LET vector_x == start_x - end_x
        vector_y == start_y - end_y
        perpendicular_x == vector_y
        perpendicular_y == 0 - vector_x
        length == sqrt(vector_x * vector_x + vector_y * vector_y)
        normal == IF length = 0 THEN fallback_normal
                  ELSE <<Quotient(perpendicular_x, length),
                         Quotient(perpendicular_y, length)>>
        r1 == <<2 * start_x + normal[1] * line_width, 2 * start_y + normal[2] * line_width>>
        r2 == <<2 * start_x - normal[1] * line_width, 2 * start_y - normal[2] * line_width>>
        r3 == <<2 * end_x + normal[1] * line_width, 2 * end_y + normal[2] * line_width>>
        r4 == <<2 * end_x - normal[1] * line_width, 2 * end_y - normal[2] * line_width>>
    IN  Returned(corners(r1, r2, r3, r4))

\* a call of a function of drawing_support.py: nothing of the glyph
\* functions is in use
ColorCall(f) ==
    /\ op = f
    /\ pc = "call"
    /\ NoExamples
    /\ NoSelectionCall
    /\ NoGlyphCall
    /\ font = DefaultFont
    /\ Fresh(<<>>)

InitHex ==
    /\ ColorCall("hex")
    /\ hex_code \in HexCodes(MaxHexLen)
    /\ color = <<>>
    /\ line = NoLine

InitRgba ==
    /\ ColorCall("rgba")
    /\ hex_code = <<>>
    /\ color \in Colors
    /\ line = NoLine

InitFloat ==
    /\ ColorCall("float")
    /\ hex_code = <<>>
    /\ color \in Colors
    /\ line = NoLine

InitLine ==
    /\ ColorCall("line")
    /\ hex_code = <<>>
    /\ color = <<>>
    /\ line \in Lines

InitColor == InitHex \/ InitRgba \/ InitFloat \/ InitLine

\* color_from_hex_string, called
HexString ==
    /\ op = "hex"
    /\ pc = "call"
    /\ outcome' = color_from_hex_string(hex_code)
    /\ pc' = "done"
    /\ UNCHANGED <<examples, args, locals, slicer_calls, raster_calls>>

\* get_four_byte_color, called
FourByteColor ==
    /\ op = "rgba"
    /\ pc = "call"
    /\ outcome' = get_four_byte_color(color)
    /\ pc' = "done"
    /\ UNCHANGED <<examples, args, locals, slicer_calls, raster_calls>>

\* get_three_float_color, called
ThreeFloatColor ==
    /\ op = "float"
    /\ pc = "call"
    /\ outcome' = get_three_float_color(color)
    /\ pc' = "done"
    /\ UNCHANGED <<examples, args, locals, slicer_calls, raster_calls>>

\* get_points_for_thick_line, called
ThickLine ==
    /\ op = "line"
    /\ pc = "call"
    /\ outcome' = get_points_for_thick_line(line.start_x, line.start_y,
                                             line.end_x, line.end_y, line.line_width)
    /\ pc' = "done"
    /\ UNCHANGED <<examples, args, locals, slicer_calls, raster_calls>>

NextColor == HexString \/ FourByteColor \/ ThreeFloatColor \/ ThickLine

SpecColor == InitColor /\ [][NextColor]_vars

\* --------------------------------------- doc/tutorials/compute_shader/main.py
\* no function of the library is being called
NoCall ==
    /\ op = "none"
    /\ pc = "done"
    /\ NoSelectionCall
    /\ NoGlyphCall
    /\ NoColorCall
    /\ font = DefaultFont
    /\ Fresh(<<>>)

library == <<args, locals, pc, slicer_calls, raster_calls, outcome>>

\* the star data gen_initial_data can return, random as they are
InitialData == {"stars1", "stars2", "stars3", "stars4"}

\* the two buffers ctx.buffer creates, named after the attribute that holds
\* them first
Buffers == {"buffer_previous", "buffer_current"}

\* a buffer holds the star data the window started with, moved steps times
\* by the compute shader; a buffer made with reserve= holds no stars yet
Data(stars, steps) == [stars |-> stars, steps |-> steps]
Reserved == Data("", 0)

\* ctx.geometry([BufferDescription(buffer, ...)]): a vertex array over buffer
geometry(buffer) == [over |-> buffer]

\* compute_shader.run: the data of binding 0, one step on, is written to
\* the buffer of binding 1
run(bound, data) ==
    [data EXCEPT ![bound[1]] = Data(data[bound[0]].stars, data[bound[0]].steps + 1)]

\* self.ssbo_previous, self.ssbo_current = self.ssbo_current, self.ssbo_previous
swap_ssbo(w) ==
    [w EXCEPT !.ssbo_previous = w.ssbo_current, !.ssbo_current = w.ssbo_previous]

\* variant: the vertex arrays stay where they are
swap_vao_forgotten(w) == w

\* self.vao_previous, self.vao_current = self.vao_current, self.vao_previous
swap_vao(w) ==
    [w EXCEPT !.vao_previous = w.vao_current, !.vao_current = w.vao_previous]

\* MyWindow.__init__
InitShader ==
    /\ NoCall
    /\ NoBar
    /\ NoKey
    /\ window = [ssbo_previous |-> "buffer_previous",
                 ssbo_current |-> "buffer_current",
                 vao_previous |-> geometry("buffer_previous"),
                 vao_current |-> geometry("buffer_current")]
    /\ \E stars \in InitialData :
          gl = [data |-> [b \in Buffers |->
                             IF b = "buffer_previous" THEN Data(stars, 0) ELSE Reserved],
                bound |-> <<>>,
                screen |-> <<>>]

\* MyWindow.on_draw
OnDraw ==
    /\ window # <<>>
    /\ gl.data[window.ssbo_previous].steps < MaxFrames
    /\ LET bound == (0 :> window.ssbo_previous) @@ (1 :> window.ssbo_current)
           data == run(bound, gl.data)
       IN  /\ gl' = [data |-> data,
                     bound |-> bound,
                     screen |-> data[window.vao_current.over]]
           /\ window' = swap_vao(swap_ssbo(window))
    /\ UNCHANGED <<library, bar, assignment, key, players>>

NextShader == OnDraw

SpecShader == InitShader /\ [][NextShader]_vars

\* ------------------------------------------- examples/healthbar_for_units.py
\* A float is kept as a number of quarters, or is not a number at all:
\* 0.25 is Float(1), 1.0 is Float(4), float("nan") is NaN.
Float(q) == [nan |-> FALSE, q |-> q]
NaN == [nan |-> TRUE, q |-> 0]

\* a > b and a < b on floats: both are False when one side is not a number
gt(a, b) == ~a.nan /\ ~b.nan /\ a.q > b.q
lt(a, b) == ~a.nan /\ ~b.nan /\ a.q < b.q

\* n * a for an int n
times(n, a) == IF a.nan THEN NaN ELSE Float(n * a.q)

\* the values assigned to fullness, the fill widths and positions of a bar
FullnessArgs == {Float(q) : q \in (0 - MaxQuarters)..MaxQuarters} \cup {NaN}
FillWidths == {100, 7}
StartFullness == {Float(q) : q \in 0..4}
StartPositions == {<<0, 0>>, <<320, 240>>}
Positions == StartPositions \cup {<<10, 20>>}

\* whether the setter of fullness raises ValueError
rejects(new_fullness) == gt(new_fullness, Float(4)) \/ lt(new_fullness, Float(0))

\* the setter of fullness, on a value it accepts
set_fullness(b, new_fullness) ==
    [b EXCEPT !.full_part = [width |-> times(b._fill_width_px, new_fullness),
                             left |-> b._center_x - b._half_fill_width_px],
              !._fullness = new_fullness]

\* the setter of position; sprite_list.move shifts every sprite of the bar
set_position(b, new_position) ==
    IF new_position # <<b._center_x, b._center_y>>
    THEN [b EXCEPT !.full_part.left = @ + (new_position[1] - b._center_x),
                   !._center_x = new_position[1],
                   !._center_y = new_position[2]]
    ELSE b

\* IndicatorBar.__init__ up to line 89
new_bar(fill_width_px) ==
    [_fullness |-> Float(0),
     _fill_width_px |-> fill_width_px,
     _half_fill_width_px |-> fill_width_px \div 2,
     _center_x |-> 0,
     _center_y |-> 0,
     full_part |-> [width |-> Float(4 * fill_width_px), left |-> 0]]

\* IndicatorBar(fill_width_px, position, fullness=...) with a fullness from
\* 0.0 to 1.0
InitBar ==
    /\ NoCall
    /\ NoWindow
    /\ NoKey
    /\ \E w \in FillWidths, p \in StartPositions, f \in StartFullness :
          /\ bar = set_position(set_fullness(new_bar(w), f), p)
          /\ assignment = [value |-> f, raised |-> FALSE]

\* bar.fullness = new_fullness
SetFullness ==
    /\ bar # <<>>
    /\ \E new_fullness \in FullnessArgs :
          IF rejects(new_fullness)
          THEN /\ assignment' = [value |-> new_fullness, raised |-> TRUE]
               /\ UNCHANGED bar
          ELSE /\ bar' = set_fullness(bar, new_fullness)
               /\ assignment' = [value |-> new_fullness, raised |-> FALSE]
    /\ UNCHANGED <<library, window, gl, key, players>>

\* bar.position = new_position
SetPosition ==
    /\ bar # <<>>
    /\ \E new_position \in Positions : bar' = set_position(bar, new_position)
    /\ UNCHANGED <<library, window, gl, assignment, key, players>>

NextBar == SetFullness \/ SetPosition

SpecBar == InitBar /\ [][NextBar]_vars

\* ----------------------------------------- examples/playback_speed_example.py
\* the up and down colors of the white and the black keys of a keyboard
KeyColors == {[up |-> "white_up", down |-> "white_down"],
              [up |-> "black_up", down |-> "black_down"]}

\* self._player is None
None == 0

\* arcade.play_sound(sound, looping=...): one more player, playing
play_sound(ps, looping) == Append(ps, [playing |-> TRUE, looping |-> looping])

\* self._sound.is_playing(player)
is_playing(ps, player) == ps[player].playing

\* arcade.stop_sound(player)
stop_sound(ps, player) == [ps EXCEPT ![player].playing = FALSE]

\* SynthKey.__init__
InitSynth ==
    /\ NoCall
    /\ NoWindow
    /\ NoBar
    /\ \E colors \in KeyColors, loop \in BOOLEAN :
          key = [_loop |-> loop,
                 _player |-> None,
                 _up_color |-> colors.up,
                 _down_color |-> colors.down,
                 _pressed |-> FALSE,
                 color |-> colors.up]
    /\ players = <<>>

\* key.pressed = True
Press ==
    /\ key # <<>>
    /\ Len(players) < MaxPlayers
    /\ players' = play_sound(players, key._loop)
    /\ key' = [key EXCEPT !._player = Len(players'),
                          !.color = key._down_color,
                          !._pressed = TRUE]
    /\ UNCHANGED <<library, window, gl, bar, assignment>>

\* key.pressed = False
Release ==
    /\ key # <<>>
    /\ players' = IF key._player # None /\ is_playing(players, key._player)
                  THEN stop_sound(players, key._player)
                  ELSE players
    /\ key' = [key EXCEPT !.color = key._up_color, !._pressed = FALSE]
    /\ UNCHANGED <<library, window, gl, bar, assignment>>

\* a player that does not loop reaches the end of its sample
SampleEnds ==
    /\ key # <<>>
    /\ \E player \in 1..Len(players) :
          /\ players[player].playing
          /\ ~players[player].looping
          /\ players' = [players EXCEPT ![player].playing = FALSE]
    /\ UNCHANGED <<library, window, gl, bar, assignment, key>>

NextSynth == Press \/ Release \/ SampleEnds

SpecSynth == InitSynth /\ [][NextSynth]_vars

\* ================================================================== claims
\* what flatten_glyph_selection makes of the argument of the call
Flat == flatten_glyph_selection(selection)

Done(f) == op = f /\ pc = "done"

IsSeqContainer == selection.kind \in {"list", "tuple"}

\* every upper case key of table d has its lower case key on the same image
LowerAliasesUpper(d) ==
    \A K \in Keys(d) :
        isupper(K) => (lower(K) \in Keys(d) /\ Get(d, lower(K)) = Get(d, K))

RECURSIVE SumLen(_)
SumLen(v) == IF v = <<>> THEN 0 ELSE Len(v[1].val) + SumLen(Tail(v))

\* s holds the characters of the elements of v, element after element
IsConcatenation(s, v) ==
    /\ Len(s) = SumLen(v)
    /\ \A i \in 1..Len(v) : \A j \in 1..Len(v[i].val) :
          s[SumLen(SubSeq(v, 1, i - 1)) + j] = v[i].val[j]

\* C1: with check_lengths true and a flattened selection whose length
\* differs from count, load_monospace_spritesheet_font never calls
\* load_spritesheet, and ends with the SelectionCountMismatch ValueError.
C1_MismatchBeforeSlice ==
    (op = "spritesheet" /\ check_lengths /\ Flat.status = "ok"
        /\ Len(Flat.value) # count)
    => /\ slicer_calls = 0
       /\ raw_sheet = <<>>
       /\ pc = "done" => outcome = Raised("SelectionCountMismatch", 0)

C1_Witness ==
    /\ Done("spritesheet")
    /\ check_lengths
    /\ Len(flat_selection) = 2
    /\ count = 3
    /\ outcome.error = "SelectionCountMismatch"
    /\ slicer_calls = 0

\* C2: for a flattened selection of pairwise distinct characters whose
\* length equals count, with map_lower_to_upper false, the returned table
\* has exactly count keys and the i-th character of the selection maps to
\* the i-th image the slicer returned.
C2_SpritesInSequence ==
    (Done("spritesheet") /\ ~map_lower_to_upper /\ Flat.status = "ok"
        /\ Len(Flat.value) = count
        /\ Cardinality({Flat.value[i] : i \in 1..count}) = count)
    => /\ outcome.status = "ok"
       /\ Len(raw_sheet) = count
       /\ Len(outcome.value) = count
       /\ Cardinality(Keys(outcome.value)) = count
       /\ \A i \in 1..count :
             /\ Flat.value[i] \in Keys(outcome.value)
             /\ Get(outcome.value, Flat.value[i]) = raw_sheet[i]

C2_Witness ==
    /\ Done("spritesheet")
    /\ ~map_lower_to_upper
    /\ count = 3
    /\ flat_selection = <<"a", "1", "A">>
    /\ outcome.status = "ok"
    /\ Get(outcome.value, "A") = raw_sheet[3]

\* C3: build_glyph_table_from_system_font called with map_lower_to_upper
\* true returns a table in which every upper case key has its lower case
\* key present on the same image; a selection of only "A" gives key "a".
C3_FontLowerAliasesUpper ==
    (Done("font") /\ map_lower_to_upper /\ outcome.status = "ok")
    => LowerAliasesUpper(outcome.value)

\* C4: load_monospace_spritesheet_font with map_lower_to_upper true never
\* fails in the aliasing pass, and returns a table in which every upper
\* case key has its lower case key present on the same image, wherever the
\* lower case character stands in the selection.
C4_SheetLowerAliasesUpper ==
    (Done("spritesheet") /\ map_lower_to_upper)
    => /\ outcome.error # "RuntimeError"
       /\ outcome.status = "ok" => LowerAliasesUpper(outcome.value)

C4_Witness ==
    /\ Done("spritesheet")
    /\ map_lower_to_upper
    /\ flat_selection = <<"A", "a">>
    /\ outcome.status = "ok"
    /\ Get(outcome.value, "a") = raw_sheet[1]
    /\ Get(outcome.value, "A") = raw_sheet[1]

\* C5: remap_font_glyph_table_lowercase_to_upper completes without an
\* error on any glyph table, leaves every upper case key with its lower
\* case key on the same image, and leaves every entry whose key is not the
\* lower case of an upper case key as it was.
C5_RemapCompletes ==
    Done("remap")
    => /\ outcome.status = "ok"
       /\ LowerAliasesUpper(glyph_table)
       /\ \A i \in 1..Len(table_arg) :
             (~\E K \in Keys(table_arg) :
                   isupper(K) /\ lower(K) = table_arg[i][1])
             => /\ table_arg[i][1] \in Keys(glyph_table)
                /\ Get(glyph_table, table_arg[i][1]) = table_arg[i][2]

\* C6: flatten_glyph_selection returns a str as it is, and for a list or
\* tuple of non-empty strings returns their characters in the original
\* order, as many as the elements hold together; flattening the result
\* again changes nothing.  (The empty str and the empty list are refused,
\* which is C8.)
C6_FlattenConcatenates ==
    Done("flatten")
    => /\ (selection.kind = "str" /\ selection.chars # <<>>)
          => outcome = Returned(selection.chars)
       /\ (selection.kind = "str" /\ outcome.status = "ok")
          => outcome.value = selection.chars
       /\ (IsSeqContainer /\ selection.items # <<>>
              /\ \A i \in 1..Len(selection.items) :
                    /\ selection.items[i].type = "str"
                    /\ selection.items[i].val # <<>>)
          => /\ outcome.status = "ok"
             /\ IsConcatenation(outcome.value, selection.items)
             /\ flatten_glyph_selection(PyStr(outcome.value))
                   = Returned(outcome.value)

C6_Witness ==
    /\ Done("flatten")
    /\ selection = PyContainer("list", <<Str(<<"A", "a">>), Str(<<"1", "A">>)>>)
    /\ outcome.value = <<"A", "a", "1", "A">>

\* C7: flatten_glyph_selection fails with a TypeError for every list or
\* tuple that holds an element that is not a str, wherever that element
\* stands and whatever the other elements are.
C7_NonStringElementRaisesTypeError ==
    (Done("flatten") /\ IsSeqContainer
        /\ \E i \in 1..Len(selection.items) : selection.items[i].type # "str")
    => /\ outcome.status = "error"
       /\ outcome.error \in {"NonStringElement", "LenTypeError"}

\* C8: flatten_glyph_selection fails with the EmptySelection ValueError on
\* the empty str, the empty list or tuple, and a list or tuple whose first
\* element is the empty str; whatever it returns is a non-empty str.
C8_EmptySelectionRefused ==
    Done("flatten")
    => /\ (selection.kind = "str" /\ selection.chars = <<>>)
          => outcome = Raised("EmptySelection", 0)
       /\ (IsSeqContainer /\ selection.items = <<>>)
          => outcome = Raised("EmptySelection", 0)
       /\ (IsSeqContainer /\ selection.items # <<>>
              /\ selection.items[1] = Str(<<>>))
          => outcome = Raised("EmptySelection", 0)
       /\ outcome.status = "ok" => Len(outcome.value) >= 1

C8_Witness ==
    /\ Done("flatten")
    /\ selection = PyContainer("tuple", <<Str(<<>>), Str(<<"A">>)>>)
    /\ outcome.error = "EmptySelection"

\* C9: flatten_glyph_selection fails with the InvalidSelectionType
\* TypeError for every argument that is not a str, a list or a tuple, be
\* it empty or filled with anything.
C9_InvalidTypeFirst ==
    (Done("flatten") /\ selection.kind \notin {"str", "list", "tuple"})
    => outcome = Raised("InvalidSelectionType", 0)

C9_Witness ==
    /\ Done("flatten")
    /\ selection = PyContainer("set", <<>>)
    /\ outcome.error = "InvalidSelectionType"

\* C10: build_glyph_table_from_system_font with map_lower_to_upper false
\* returns a table whose keys are exactly the characters of the flattened
\* selection, each on the texture render_glyph_texture_from_system_font
\* makes of that character with the font name, size and color passed.
C10_FontTableKeys ==
    (Done("font") /\ ~map_lower_to_upper /\ Flat.status = "ok")
    => /\ outcome.status = "ok"
       /\ Keys(outcome.value) = {Flat.value[i] : i \in 1..Len(Flat.value)}
       /\ Len(outcome.value) = Cardinality(Keys(outcome.value))
       /\ \A k \in Keys(outcome.value) :
             Get(outcome.value, k) =
                render_glyph_texture_from_system_font(
                    Str(<<k>>), font.name, font.size, font.color).value

C10_Witness ==
    /\ Done("font")
    /\ ~map_lower_to_upper
    /\ flat_selection = <<"A", "1">>
    /\ font.size = 9
    /\ outcome.status = "ok"
    /\ Get(outcome.value, "A").image.font_size = 9
    /\ raster_calls = 2

\* ------------------------------------------------ claims on code ranges
\* code_range is a list or tuple of exactly two ints
WellTypedRange ==
    /\ code_range.kind \in {"tuple", "list"}
    /\ Len(code_range.items) = 2
    /\ \A i \in 1..2 : code_range.items[i].type = "int"

RangeA == code_range.items[1].n
RangeB == code_range.items[2].n

\* the table has one entry for each code point of a..(b - 1) and no other
TableOfRange(d, a, b) ==
    /\ Len(d) = b - a
    /\ Keys(d) = {chr(c) : c \in a..(b - 1)}
    /\ chr(b) \notin Keys(d)

\* C11 (as claimed): for all ints 0 <= start < stop the builder returns a
\* table of exactly stop - start entries, keyed by the characters of the
\* code points start..stop-1; the default range gives 256 entries.
C11_AnyRangeTable ==
    (Done("range") /\ WellTypedRange /\ 0 <= RangeA /\ RangeA < RangeB)
    => /\ outcome.status = "ok"
       /\ TableOfRange(outcome.value, RangeA, RangeB)

\* C11 (amended): for all ints 0 <= start < stop <= 0x110000 the builder
\* returns a table of exactly stop - start entries, keyed by the characters
\* of the code points start..stop-1, stop left out; the default range
\* (0, 256) gives 256 entries.
C11_RangeTable ==
    (Done("range") /\ WellTypedRange /\ 0 <= RangeA /\ RangeA < RangeB
        /\ RangeB <= MaxCodePoint + 1)
    => /\ outcome.status = "ok"
       /\ TableOfRange(outcome.value, RangeA, RangeB)
       /\ raster_calls = RangeB - RangeA
       /\ code_range = ASCII_WITH_LATIN_1 => Len(outcome.value) = 256

C11_Witness ==
    /\ Done("range")
    /\ code_range = ASCII_WITH_LATIN_1
    /\ outcome.status = "ok"
    /\ Len(outcome.value) = 256
    /\ {chr(0), chr(255)} \subseteq Keys(outcome.value)

\* C12: a code_range that is not a list or tuple of two ints ends in the
\* InvalidRangeType TypeError; a well typed one with start < 0 in the
\* NegativeCodePoint ValueError, also when stop <= start; one with
\* 0 <= start and stop <= start in the EmptyOrInvertedRange ValueError.
C12_RangeErrors ==
    Done("range")
    => /\ ~WellTypedRange => outcome = Raised("InvalidRangeType", 0)
       /\ (WellTypedRange /\ RangeA < 0)
          => outcome = Raised("NegativeCodePoint", 0)
       /\ (WellTypedRange /\ RangeA >= 0 /\ RangeB <= RangeA)
          => outcome = Raised("EmptyOrInvertedRange", 0)

C12_Witness ==
    /\ Done("range")
    /\ code_range = PyRange("tuple", <<PyInt(-1), PyInt(-1)>>)
    /\ outcome.error = "NegativeCodePoint"

\* C13: render_glyph_texture_from_system_font refuses every argument that
\* is not a str of length 1, with a TypeError when it is not a str and a
\* ValueError when its length is 0 or above 1, and never calls the font
\* backend for it.
C13_GlyphRefused ==
    (op = "glyph" /\ ~(glyph.type = "str" /\ Len(glyph.val) = 1))
    => /\ raster_calls = 0
       /\ pc # "raster"
       /\ pc = "done" =>
             outcome = Raised(IF glyph.type # "str" THEN "GlyphTypeError"
                              ELSE "GlyphLengthError", 0)

C13_Witness ==
    /\ Done("glyph")
    /\ glyph = Str(<<"A", "A">>)
    /\ outcome.error = "GlyphLengthError"
    /\ raster_calls = 0

\* the value of one digit character
DigitValue(c) ==
    CASE c = "0" -> 0 [] c = "1" -> 1 [] c = "2" -> 2 [] c = "3" -> 3
      [] c = "4" -> 4 [] c = "5" -> 5 [] c = "6" -> 6 [] c = "7" -> 7
      [] c = "8" -> 8 [] c = "9" -> 9 [] c = "a" -> 10 [] c = "b" -> 11
      [] c = "c" -> 12 [] c = "d" -> 13 [] c = "e" -> 14 [] c = "f" -> 15
      [] OTHER -> 99

\* ds is a numeral of base b
IsNumeral(ds, b) ==
    /\ Len(ds) >= 1
    /\ \A i \in 1..Len(ds) : DigitValue(ds[i]) < b

RECURSIVE NumberOf(_, _)
\* the number the numeral ds of base b stands for
NumberOf(ds, b) ==
    IF ds = <<>> THEN 0
    ELSE NumberOf(SubSeq(ds, 1, Len(ds) - 1), b) * b + DigitValue(ds[Len(ds)])

\* name reads <font name>-<size in decimal>-0x<code point in hexadecimal>
IsGlyphName(name, font_name, font_size, code_point) ==
    LET n == Len(font_name)
        rest == SubSeq(name, n + 2, Len(name))
        dashes == {i \in 1..Len(rest) : rest[i] = "-"}
    IN  /\ Len(name) >= n + 6
        /\ SubSeq(name, 1, n) = font_name
        /\ name[n + 1] = "-"
        /\ Cardinality(dashes) = 1
        /\ LET p == CHOOSE i \in dashes : TRUE
               size == SubSeq(rest, 1, p - 1)
               code == SubSeq(rest, p + 3, Len(rest))
           IN  /\ IsNumeral(size, 10)
               /\ NumberOf(size, 10) = font_size
               /\ SubSeq(rest, p + 1, p + 2) = <<"0", "x">>
               /\ IsNumeral(code, 16)
               /\ NumberOf(code, 16) = code_point

\* C14: the name of the texture of a glyph is made of the font name, the
\* font size and the code point of the character in hexadecimal, and of
\* nothing else; for code point 0 it holds no null character and ends
\* with 0x0.
C14_GlyphName ==
    (Done("glyph") /\ outcome.status = "ok")
    => LET name == outcome.value.name
           code_point == CHOOSE c \in CodePoints : chr(c) = glyph.val[1]
       IN  /\ IsGlyphName(name, font.name, font.size, code_point)
           /\ glyph.val[1] = chr(0) =>
                 /\ \A i \in 1..Len(name) : name[i] # chr(0)
                 /\ SubSeq(name, Len(name) - 2, Len(name)) = <<"0", "x", "0">>

C14_Witness ==
    /\ Done("glyph")
    /\ glyph = Str(<<chr(0)>>)
    /\ outcome.status = "ok"
    /\ font.size = 9
    /\ outcome.value.name = font.name \o <<"-", "9", "-", "0", "x", "0">>

\* the exceptions the builders raise on an argument they refuse
ValidationErrors ==
    {"InvalidSelectionType", "EmptySelection", "LenTypeError",
     "NonStringElement", "InvalidRangeType", "NegativeCodePoint",
     "EmptyOrInvertedRange"}

\* the argument of the builder called is one it refuses
RefusedArgument ==
    \/ op = "font" /\ Flat.status = "error"
    \/ op = "range" /\ (~WellTypedRange \/ RangeA < 0 \/ RangeB <= RangeA)

\* C15: in both builders of glyph tables from a system font, a refused
\* selection or code range ends the call in its validation error with no
\* call of the rasterizer before it, no entry in the table and no table
\* returned; a validation error never follows a call of the rasterizer.
C15_ValidationBeforeRaster ==
    /\ RefusedArgument
       => /\ raster_calls = 0
          /\ glyph_table = <<>>
          /\ pc = "done" => /\ outcome.status = "error"
                            /\ outcome.error \in ValidationErrors
                            /\ outcome.value = NoValue
    /\ (op \in {"font", "range"} /\ outcome.error \in ValidationErrors)
       => raster_calls = 0 /\ glyph_table = <<>>

C15_Witness ==
    /\ Done("font")
    /\ selection = PyContainer("list", <<Str(<<"A">>), [type |-> "int", val |-> <<>>]>>)
    /\ outcome.error = "NonStringElement"
    /\ raster_calls = 0

\* ---------------------------------------------------------- hex colors
\* the value of a hexadecimal digit of either case, 99 for another character
HexCharValue(c) ==
    IF DigitValue(c) < 16 THEN DigitValue(c)
    ELSE CASE c = "A" -> 10 [] c = "B" -> 11 [] c = "C" -> 12
           [] c = "D" -> 13 [] c = "E" -> 14 [] c = "F" -> 15
           [] OTHER -> 99

\* every character of s is a hexadecimal digit
IsHexDigits(s) == \A i \in 1..Len(s) : HexCharValue(s[i]) < 16

\* s without the '#' characters it starts with
WithoutPrefix(s) ==
    LET hashes == CHOOSE k \in 0..Len(s) :
                      /\ \A i \in 1..k : s[i] = "#"
                      /\ k < Len(s) => s[k + 1] # "#"
    IN  SubSeq(s, hashes + 1, Len(s))

\* s with every character written twice
Duplicated(s) == [i \in 1..(2 * Len(s)) |-> s[(i + 1) \div 2]]

\* the byte written by the k-th pair of digits of s
Byte(s, k) == 16 * HexCharValue(s[2 * k - 1]) + HexCharValue(s[2 * k])

\* C16: color_from_hex_string raises ValueError for every code whose number
\* of characters after the leading '#' is not 3, 4, 6 or 8, and for every
\* code of such a length with a character that is no hexadecimal digit, a
\* sign, a space or an underscore included.
C16_MalformedRefused ==
    Done("hex") =>
        LET d == WithoutPrefix(hex_code)
        IN  (Len(d) \notin {3, 4, 6, 8} \/ ~IsHexDigits(d))
                => outcome.status = "error"

\* C17: every color color_from_hex_string returns has four channels, each
\* in 0..255.
C17_ChannelsAreBytes ==
    (Done("hex") /\ outcome.status = "ok") =>
        /\ Len(outcome.value) = 4
        /\ \A i \in 1..Len(outcome.value) : outcome.value[i] \in 0..255

\* C18: a code of three or four hexadecimal digits, with or without '#',
\* gives the color of the code with every digit written twice, which is 17
\* times the digit in each channel, alpha 255 when there are three digits.
C18_ShorthandDuplicates ==
    Done("hex") =>
        LET d == WithoutPrefix(hex_code)
        IN  (Len(d) \in {3, 4} /\ IsHexDigits(d)) =>
                /\ outcome.status = "ok"
                /\ outcome = color_from_hex_string(Duplicated(d))
                /\ outcome = color_from_hex_string(<<"#">> \o Duplicated(d))
                /\ outcome.value = [i \in 1..Len(d) |-> 17 * HexCharValue(d[i])]
                                   \o (IF Len(d) = 3 THEN <<255>> ELSE <<>>)

\* "#fff" gave (255, 255, 255, 255)
C18_Witness ==
    /\ Done("hex")
    /\ hex_code = <<"#", "f", "f", "f">>
    /\ outcome.value = <<255, 255, 255, 255>>

\* C19: six hexadecimal digits give the bytes of the three pairs of digits
\* and alpha 255, eight give the bytes of the four pairs, the fourth being
\* alpha.
C19_DigitPairs ==
    Done("hex") =>
        LET d == WithoutPrefix(hex_code)
        IN  IsHexDigits(d) =>
                /\ Len(d) = 6 =>
                      outcome = Returned(<<Byte(d, 1), Byte(d, 2), Byte(d, 3), 255>>)
                /\ Len(d) = 8 =>
                      outcome = Returned(<<Byte(d, 1), Byte(d, 2), Byte(d, 3), Byte(d, 4)>>)

\* "#ff00ff00" gave (255, 0, 255, 0)
C19_Witness ==
    /\ Done("hex")
    /\ hex_code = <<"#", "f", "f", "0", "0", "f", "f", "0", "0">>
    /\ outcome.value = <<255, 0, 255, 0>>

\* C20: get_four_byte_color returns C + (255,) for a color C of three
\* channels and C itself for one of four, so that applying it to its result
\* gives the result again.
C20_FourByteColor ==
    Done("rgba") =>
        /\ Len(color) = 3 => outcome = Returned(color \o <<255>>)
        /\ Len(color) = 4 => outcome = Returned(color)
        /\ outcome.status = "ok" => get_four_byte_color(outcome.value) = outcome

\* (0, 7, 255) became (0, 7, 255, 255)
C20_Witness ==
    /\ Done("rgba")
    /\ color = <<0, 7, 255>>
    /\ outcome.value = <<0, 7, 255, 255>>

\* C21: get_four_byte_color and get_three_float_color both raise ValueError
\* for every color whose length is not 3 or 4: 0, 1, 2, 5 and more.
C21_OtherLengthsRefused ==
    ((Done("rgba") \/ Done("float")) /\ Len(color) \notin {3, 4}) =>
        /\ outcome.status = "error"
        /\ outcome.error = "InvalidColorFormat"

\* get_three_float_color refused a color of five channels
C21_Witness ==
    /\ Done("float")
    /\ Len(color) = 5
    /\ outcome.error = "InvalidColorFormat"

\* ----------------------------------------------------------- thick lines
\* the ends of the line, doubled like the corners
Start2 == <<2 * line.start_x, 2 * line.start_y>>
End2 == <<2 * line.end_x, 2 * line.end_y>>
Plus(p, q) == <<p[1] + q[1], p[2] + q[2]>>
Minus(p, q) == <<p[1] - q[1], p[2] - q[2]>>
Dot(p, q) == p[1] * q[1] + p[2] * q[2]

\* C22: the corners are start+n, start-n, end-n, end+n in this order: the
\* middle of corners 1 and 2 is start, that of corners 3 and 4 is end, and
\* on a line with two different ends n is perpendicular to the line and
\* width / 2 long.
C22_CornerOrder ==
    Done("line") =>
        LET c == outcome.value
            n == Minus(c[1], Start2)
        IN  /\ outcome.status = "ok"
            /\ Len(c) = 4
            /\ c = <<Plus(Start2, n), Minus(Start2, n), Minus(End2, n), Plus(End2, n)>>
            /\ Plus(c[1], c[2]) = Plus(Start2, Start2)
            /\ Plus(c[3], c[4]) = Plus(End2, End2)
            /\ Start2 # End2 =>
                  /\ Dot(n, Minus(End2, Start2)) = 0
                  /\ Dot(n, n) = line.line_width * line.line_width

\* the line from (0, 0) to (2, 0) of width 2 gave (0, 1), (0, -1), (2, -1),
\* (2, 1)
C22_Witness ==
    /\ Done("line")
    /\ line = [start_x |-> 0, start_y |-> 0, end_x |-> 2, end_y |-> 0, line_width |-> 2]
    /\ outcome.value = <<<<0, 2>>, <<0, -2>>, <<4, -2>>, <<4, 2>>>>

\* C23: on a line whose ends are the same point (x, y) the call returns,
\* without dividing by the length 0, the corners (x+w/2, y+w/2),
\* (x-w/2, y-w/2), (x-w/2, y-w/2), (x+w/2, y+w/2).
C23_ZeroLengthLine ==
    (Done("line") /\ Start2 = End2) =>
        LET w == <<line.line_width, line.line_width>>
        IN  /\ outcome.status = "ok"
            /\ outcome.value = <<Plus(Start2, w), Minus(Start2, w),
                                 Minus(Start2, w), Plus(Start2, w)>>
            /\ outcome.value[1] = outcome.value[4]
            /\ outcome.value[2] = outcome.value[3]

\* the line from (1, 2) to (1, 2) of width 3 gave (2.5, 3.5), (-0.5, 0.5)
\* twice over
C23_Witness ==
    /\ Done("line")
    /\ line = [start_x |-> 1, start_y |-> 2, end_x |-> 1, end_y |-> 2, line_width |-> 3]
    /\ outcome.value = <<<<5, 7>>, <<-1, 1>>, <<-1, 1>>, <<5, 7>>>>

\* ------------------------------------------------- compute shader window
\* each vertex array is the one built over the buffer of its pair, and the
\* two buffers are different ones
PairsConsistent ==
    /\ window.vao_current = geometry(window.ssbo_current)
    /\ window.vao_previous = geometry(window.ssbo_previous)
    /\ window.ssbo_current # window.ssbo_previous

\* once a frame was drawn: the buffer written through binding 1 is the one
\* that was rendered, and it holds the data read through binding 0 one
\* step on
WrittenIsRendered ==
    gl.bound # <<>> =>
        /\ gl.screen = gl.data[gl.bound[1]]
        /\ gl.screen = Data(gl.data[gl.bound[0]].stars, gl.data[gl.bound[0]].steps + 1)

\* a frame reads through binding 0 the buffer the frame before wrote
\* through binding 1
ReadsLastWritten == gl.bound # <<>> => gl'.bound[0] = gl.bound[1]

\* C24: after any number of on_draw calls vao_current is the vertex array
\* over ssbo_current and vao_previous the one over ssbo_previous, the two
\* buffers differ, and the buffer a frame writes and renders is the buffer
\* the next frame reads.
C24_BufferPairs ==
    /\ [](PairsConsistent /\ WrittenIsRendered)
    /\ [][ReadsLastWritten]_vars

\* two frames were drawn: the second wrote the buffer the first had read
C24_Witness ==
    /\ gl.bound # <<>>
    /\ gl.bound[1] = "buffer_previous"
    /\ gl.screen.steps = 2

\* ------------------------------------------------------------ indicator bar
\* a is a number of the interval from 0.0 to 1.0
InUnitInterval(a) == ~a.nan /\ 0 <= a.q /\ a.q <= 4

\* a is a number below 0.0 or above 1.0
OutsideUnitInterval(a) == ~a.nan /\ (a.q < 0 \/ a.q > 4)

\* an assignment of a value below 0.0 or above 1.0 raises and leaves the
\* bar as it was
RejectionKeepsBar ==
    [][(assignment' # assignment /\ OutsideUnitInterval(assignment'.value))
          => (assignment'.raised /\ bar' = bar)]_vars

\* C25: after any assignments to fullness, accepted or refused, the
\* fullness read back lies in the interval from 0.0 to 1.0 and is the last
\* value that was accepted; the refused ones are those below 0.0 or above
\* 1.0.
C25_FullnessInUnitInterval ==
    bar # <<>> =>
        /\ InUnitInterval(bar._fullness)
        /\ ~assignment.raised => bar._fullness = assignment.value
        /\ assignment.raised => OutsideUnitInterval(assignment.value)

\* --------------------------------------------------------------- synth key
\* C26: whenever pressed is False, after any assignments to pressed, no
\* player the key started is playing.
C26_ReleasedKeyIsSilent ==
    (key # <<>> /\ ~key._pressed) =>
        \A player \in 1..Len(players) : ~players[player].playing

\* ------------------------------------------- tables of repeated characters
\* C27: load_monospace_spritesheet_font with check_lengths false: on a
\* flattened selection shorter than count it returns a table that holds the
\* first len(selection) sprites only, each under its character; on one
\* longer than count it raises IndexError at index count, after the sheet
\* was sliced, and returns no table.
C27_UncheckedLengths ==
    (Done("spritesheet") /\ ~check_lengths /\ Flat.status = "ok") =>
        LET n == Len(Flat.value)
        IN  /\ n < count =>
                  /\ outcome.status = "ok"
                  /\ Len(raw_sheet) = count
                  /\ \A i \in 1..n : Flat.value[i] \in Keys(outcome.value)
                  /\ \A k \in Keys(outcome.value) :
                        \E i \in 1..n :
                            /\ Get(outcome.value, k) = raw_sheet[i]
                            /\ \/ k = Flat.value[i]
                               \/ map_lower_to_upper /\ k = lower(Flat.value[i])
            /\ n > count =>
                  /\ outcome = Raised("IndexError", count)
                  /\ slicer_calls = 1

\* two characters for a sheet of one sprite: IndexError at index 1
C27_Witness ==
    /\ Done("spritesheet")
    /\ ~check_lengths
    /\ flat_selection = <<"A", "1">>
    /\ count = 1
    /\ slicer_calls = 1
    /\ outcome = Raised("IndexError", 1)

\* the characters of the flattened selection
FlatChars == {Flat.value[i] : i \in 1..Len(Flat.value)}

\* the place of the last occurrence of c in the flattened selection
LastIndex(c) ==
    CHOOSE i \in 1..Len(Flat.value) :
        /\ Flat.value[i] = c
        /\ \A j \in (i + 1)..Len(Flat.value) : Flat.value[j] # c

\* C28: without lower case aliasing, the table both builders return has one
\* key for each distinct character of the flattened selection, which can be
\* fewer than count; in the sprite sheet table a character stands for the
\* sprite at the place of its last occurrence.
C28_RepeatedCharacters ==
    ((Done("spritesheet") \/ Done("font")) /\ ~map_lower_to_upper
        /\ outcome.status = "ok")
    => /\ Keys(outcome.value) = FlatChars
       /\ Len(outcome.value) = Cardinality(FlatChars)
       /\ op = "spritesheet" =>
             \A c \in FlatChars : Get(outcome.value, c) = raw_sheet[LastIndex(c)]

\* "AA" on a sheet of two sprites, lengths checked: one key, on the second
\* sprite
C28_Witness ==
    /\ Done("spritesheet")
    /\ ~map_lower_to_upper
    /\ check_lengths
    /\ flat_selection = <<"A", "A">>
    /\ count = 2
    /\ outcome.status = "ok"
    /\ Len(outcome.value) = 1
    /\ Get(outcome.value, "A") = raw_sheet[2]
====
